---- MODULE Spec2Model ----
(***************************************************************************)
(* State-machine model of the session-booking picker widgets:              *)
(*   - useSnapScroll, the snap/smooth-scroll coordinator                   *)
(*   - useDragScroll, the drag-scroll controller                           *)
(*   - the clamped TimeSelector that composes both on one container        *)
(*   - the booking state and the DateSelector re-centre effect             *)
(*                                                                         *)
(* Time is Date.now() in milliseconds, sampled every SnapRestoreDelay ms.  *)
(* Scroll offsets are whole CSS pixels.                                    *)
(***************************************************************************)
EXTENDS Integers, Sequences, FiniteSets, TLC

(***************************************************************************)
(* Bounds of the model.                                                    *)
(***************************************************************************)
\* scrollTo calls are issued only while now <= MaxCallTime
MaxCallTime == 300
\* at most MaxCalls scrollTo calls are issued in one run
MaxCalls == 2
\* pointer positions e.pageX - offsetLeft range over 0..MaxX
MaxX == 6
\* the TimeSelector issues at most MaxWidgetCalls scrollTo calls, the one at mount included
MaxWidgetCalls == 2
\* at most MaxPendingFrames re-center callbacks wait for an animation frame
MaxPendingFrames == 2
\* wrapper widths handed to the layout calculator range over 0..MaxWrapperWidth
MaxWrapperWidth == 300
\* scrollWidth - clientWidth of the list the drag controller is exercised on
DragScrollMax == 24
\* scrollTo calls issued while the list is also dragged
MaxSharedCalls == 1

(***************************************************************************)
(* Program constants.                                                      *)
(***************************************************************************)
\* useHorizontalScrollLayout.ts:264  setTimeout(..., 100)
SnapRestoreDelay == 100
\* useHorizontalScrollLayout.ts:231  distance < 500 ? 200 : duration
ShortDistance == 500
ShortDuration == 200
\* TimeSelector.tsx:23  scrollDuration: 1000, handed to useSnapScroll
ScrollDuration == 1000
\* TimeSelector.tsx:17  base: { width: 83, height: 47, gap: 8 }
ItemWidth == 83
Gap == 8
\* TimeSelector.tsx:21  drag: { threshold: 5, multiplier: 1.5 }  (1.5 = 3 / 2)
DragThreshold == 5
MultiplierNum == 3
MultiplierDen == 2
\* TimeSelector.tsx:24  arrowScrollStep: 2
ArrowScrollStep == 2

\* The clock is sampled at this step: every modelled instant is a real one.
Step == SnapRestoreDelay
\* Date.now() at the first modelled instant (never 0, the initial token).
StartTime == Step

\* days of the date list: the day the page loaded and the next one
Days == {0, 1}

\* Offsets handed to scrollTo by the coordinator's direct callers.
ScrollTargets == {2 * (ItemWidth + Gap), 10 * (ItemWidth + Gap)}

\* TimeSelector.tsx:19,22  reservedSpace: { md: 70 }, hintWidth: { md: 0 }
ReservedSpaceMd == 70
HintWidthMd == 0
\* BookingCard.tsx:50  md:max-w-[568px] md:p-8: the wrapper is 568 - 2 * 32 wide
WrapperWidth == 504
\* timeUtils: DEFAULT_START_HOUR, DEFAULT_END_HOUR, DEFAULT_INTERVAL_MINUTES
DEFAULT_START_HOUR == 8
DEFAULT_END_HOUR == 20
DEFAULT_INTERVAL_MINUTES == 15
MINUTES_IN_HOUR == 60
\* DateSelector.tsx:24  base: { width: 64, height: 64, gap: 8 }
DateItemWidth == 64
DateGap == 8
\* dateUtils.ts:11  DEFAULT_MONTHS_AHEAD
DEFAULT_MONTHS_AHEAD == 3

NoTimer == 0
\* identifiers of the scrollTo calls of one run
CallIds == 1..(MaxCalls + MaxWidgetCalls + 1)
NoValue == -1

VARIABLES
  \* ---- browser / container
  now,                 \* Date.now()
  mounted,             \* containerRef.current is attached
  scrollLeft,          \* container.scrollLeft
  scrollMax,           \* container.scrollWidth - container.clientWidth
  scrollSnapType,      \* container.style.scrollSnapType: "none" or ""
  rafQueue,            \* callbacks handed to requestAnimationFrame, in order
  timers,              \* pending setTimeout callbacks
  \* ---- useSnapScroll refs
  currentAnimationId,  \* currentAnimationId.current
  snapRestoreTimer,    \* snapRestoreTimer.current (NoTimer = null)
  \* ---- observation of the run (history, not read by the program)
  callSeq,             \* number of scrollTo calls issued so far
  lastCall,            \* the most recent scrollTo call
  lastSmoothSeq,       \* the most recent smooth scrollTo call
  frameWrites,         \* calls whose animateFrame wrote scrollLeft in the last step
  snapWrites,          \* callbacks that set scrollSnapType = '' in the last step
  finalWrite,          \* per call: the offset left by its completion frame
  \* ---- useDragScroll
  isDown,              \* state.current.isDown
  startX,              \* state.current.startX
  dragStartScroll,     \* state.current.scrollLeft
  isDragging,          \* the isDragging React state
  minScrollPosition,   \* what options.getMinScroll returns (NoValue: not supplied)
  \* ---- observation of the drag
  dragWrite,           \* the offset a mouse-move assigned in the last step, if any
  passedThreshold,     \* a move since the last mouse-down had distance > threshold
  \* ---- wall clock, as calendar day and minute of the day
  wallDay,
  wallMinute,
  \* ---- booking state and TimeSelector
  selectedDate,        \* state.selectedDate: [day, listed]; listed: picked from the date list
  isToday,             \* useIsToday(selectedDate), memoized on the date
  firstAvailableIndex, \* the firstAvailableIndex memo
  showArrows,          \* the showArrows React state
  memoAt,              \* observation: the wall clock when the memos were computed
  autoScroll,          \* observation: the last scrollToIndex of the auto-scroll effect
  lastArrow,           \* observation: the last scrollToIndex of an arrow click
  selectedTime,        \* state.selectedTime: 0-based index into timeSlots (NoValue = null)
  timeSinceDate,       \* observation: handleTimeSelect ran after the last handleDateSelect
  renderAt,            \* new Date() at the last render of the TimeSelector
  \* ---- BookingCard and DateSelector
  scrollSignal,        \* the scrollSignal React state of BookingCard
  timePropWired,       \* the DateSelector element is given the selectedTime prop
  dateScrollLeft,      \* scrollLeft of the date list
  dateRafQueue,        \* re-center callbacks handed to requestAnimationFrame
  lastTimeSelect,      \* observation: the most recent onTimeSelect event
  \* ---- the utility functions called on their own
  utilCall,            \* the function called last and its arguments
  utilResult           \* what that call returned, or that it threw

containerVars == <<now, mounted, scrollLeft, scrollMax, scrollSnapType, rafQueue, timers>>
hookVars == <<currentAnimationId, snapRestoreTimer>>
coordObs == <<callSeq, lastCall, lastSmoothSeq, frameWrites, snapWrites, finalWrite>>
dragVars == <<isDown, startX, dragStartScroll, isDragging>>
dragObs == <<dragWrite, passedThreshold>>
clockVars == <<wallDay, wallMinute>>
widgetVars == <<selectedDate, isToday, firstAvailableIndex, showArrows, memoAt, autoScroll,
                lastArrow>>
dateListVars == <<scrollSignal, timePropWired, dateScrollLeft, dateRafQueue, lastTimeSelect>>
bookingVars == <<selectedTime, timeSinceDate, renderAt, dateListVars>>
utilVars == <<utilCall, utilResult>>
vars == <<containerVars, hookVars, coordObs, dragVars, minScrollPosition, dragObs,
          clockVars, widgetVars, bookingVars, utilVars>>

Abs(x) == IF x < 0 THEN -x ELSE x
Min(a, b) == IF a < b THEN a ELSE b
Max(a, b) == IF a > b THEN a ELSE b

(***************************************************************************)
(* timeUtils and the layout of the time list                               *)
(***************************************************************************)

\* the inner loop with the bound written as minute <= 60
RECURSIVE MinuteLoopInclusive(_, _, _)
MinuteLoopInclusive(hour, minute, intervalMinutes) ==
  IF minute <= MINUTES_IN_HOUR
    THEN <<[hours |-> hour, minutes |-> minute]>>
           \o MinuteLoopInclusive(hour, minute + intervalMinutes, intervalMinutes)
    ELSE <<>>

\* the inner loop of generateTimeSlots: minute = 0; minute < 60; minute += interval
RECURSIVE MinuteLoop(_, _, _)
MinuteLoop(hour, minute, intervalMinutes) ==
  IF minute < MINUTES_IN_HOUR
    THEN <<[hours |-> hour, minutes |-> minute]>>
           \o MinuteLoop(hour, minute + intervalMinutes, intervalMinutes)
    ELSE <<>>

\* the outer loop of generateTimeSlots: hour = startHour; hour < endHour; hour += 1
RECURSIVE HourLoop(_, _, _)
HourLoop(hour, endHour, intervalMinutes) ==
  IF hour < endHour
    THEN MinuteLoop(hour, 0, intervalMinutes) \o HourLoop(hour + 1, endHour, intervalMinutes)
    ELSE <<>>

\* generateTimeSlots(startHour, endHour, intervalMinutes) for valid arguments
GenerateTimeSlots(startHour, endHour, intervalMinutes) ==
  HourLoop(startHour, endHour, intervalMinutes)

\* const timeSlots = useMemo(() => generateTimeSlots(), [])
timeSlots == GenerateTimeSlots(DEFAULT_START_HOUR, DEFAULT_END_HOUR, DEFAULT_INTERVAL_MINUTES)

\* Date compared with Date: calendar day and minute of the day on one axis
MinutesPerDay == 24 * MINUTES_IN_HOUR
Instant(day, minute) == day * MinutesPerDay + minute

\* isTimeSlotInPast comparing the time of day only, whatever the date
IsTimeSlotInPastTimeOnly(day, slot, nowDay, nowMinute) ==
  slot.hours * MINUTES_IN_HOUR + slot.minutes < nowMinute

\* the variant of isTimeSlotInPast that also counts a slot exactly at now
IsTimeSlotInPastInclusive(day, slot, nowDay, nowMinute) ==
  Instant(day, slot.hours * MINUTES_IN_HOUR + slot.minutes) <= Instant(nowDay, nowMinute)

\* isTimeSlotInPast(selectedDate, timeSlot), with now = new Date() passed in:
\* slotDateTime = the date at hours:minutes:00.000; return slotDateTime < now
IsTimeSlotInPast(day, slot, nowDay, nowMinute) ==
  Instant(day, slot.hours * MINUTES_IN_HOUR + slot.minutes) < Instant(nowDay, nowMinute)

\* The TimeSelector renders: isPast of every slot button is computed against
\* new Date() of this render.
Render == renderAt' = [day |-> wallDay, minute |-> wallMinute]

\* isSameDay(date1, date2) on calendar days
IsSameDay(day1, day2) == day1 = day2

\* timeSlots.findIndex((slot) => !isTimeSlotInPast(selectedDate, slot)), 0-based
RECURSIVE FindFirstNotPast(_, _, _, _)
FindFirstNotPast(i, day, nowDay, nowMinute) ==
  IF i > Len(timeSlots) THEN -1
  ELSE IF ~IsTimeSlotInPast(day, timeSlots[i], nowDay, nowMinute) THEN i - 1
  ELSE FindFirstNotPast(i + 1, day, nowDay, nowMinute)

\* the firstAvailableIndex memo of the TimeSelector
FirstAvailableIndexMemo(today, day, nowDay, nowMinute) ==
  IF ~today THEN 0
  ELSE LET index == FindFirstNotPast(1, day, nowDay, nowMinute)
       IN IF index > 0 THEN index ELSE 0

\* the minScrollPosition memo: firstAvailableIndex * (itemWidth + gap)
MinScrollPositionMemo(index) == index * (ItemWidth + Gap)

\* getDefaultDate() without the look at today's slots
GetDefaultDateToday(nowDay, nowMinute) == nowDay

\* getDefaultDate(): today when a slot of today is not past, else tomorrow
GetDefaultDate(nowDay, nowMinute) ==
  IF \E i \in 1..Len(timeSlots) : ~IsTimeSlotInPast(nowDay, timeSlots[i], nowDay, nowMinute)
    THEN nowDay
    ELSE nowDay + 1

\* Math.round(a / b) for a >= 0, b > 0
Round(a, b) == (2 * a + b) \div (2 * b)

\* useResponsiveLayout.calculate on the tablet tier (base item size, md reserve)
ContainerWidth ==
  LET spaceForList == WrapperWidth - ReservedSpaceMd - HintWidthMd
      maxItems == (spaceForList + Gap + 1) \div (ItemWidth + Gap)
      safeCount == Max(1, maxItems)
  IN safeCount * ItemWidth + (safeCount - 1) * Gap + HintWidthMd

\* virtualizer.getTotalSize(): count items of itemWidth separated by gap
TotalSize == Len(timeSlots) * ItemWidth + (Len(timeSlots) - 1) * Gap

\* container.scrollLeft = v: the element keeps the offset inside its scroll range
AssignScrollLeft(v) == Max(0, Min(v, scrollMax))

(***************************************************************************)
(* useSnapScroll                                                           *)
(***************************************************************************)

\* easeInOutCubic(elapsed / duration) as the fraction num / den.
\* t < 0.5 ? 4t^3 : 1 - (-2t + 2)^3 / 2, with t = e / d and the common
\* factor Step cancelled from e and d to keep the cubes small.
EaseNum(e, d) ==
  LET eu == e \div Step
      du == d \div Step
  IN IF 2 * eu < du THEN 4 * eu * eu * eu
     ELSE du * du * du - 4 * (du - eu) * (du - eu) * (du - eu)

EaseDen(d) == LET du == d \div Step IN du * du * du

\* progress = Math.min(elapsed / animationDuration, 1), as elapsed clamped
Progress(elapsed, d) == Min(elapsed, d)

\* startOffset + (targetOffset - startOffset) * easeInOutCubic(progress)
CurrentOffset(cb, elapsed) ==
  LET p == Progress(elapsed, cb.animationDuration)
  IN cb.startOffset
       + ((cb.targetOffset - cb.startOffset) * EaseNum(p, cb.animationDuration))
           \div EaseDen(cb.animationDuration)

\* the eased offset with the clamp and the exact final assignment left out
OffsetAfterFrameEasedOnly(cb, elapsed) ==
  cb.startOffset
    + ((cb.targetOffset - cb.startOffset) * EaseNum(elapsed, cb.animationDuration))
        \div EaseDen(cb.animationDuration)

\* The value animateFrame leaves in container.scrollLeft: the eased offset
\* while progress < 1, the exact target on completion.
OffsetAfterFrame(cb, elapsed) ==
  IF elapsed < cb.animationDuration THEN CurrentOffset(cb, elapsed)
  ELSE cb.targetOffset

\* distance < 500 ? 200 : duration
AnimationDuration(startOffset, targetOffset) ==
  IF Abs(targetOffset - startOffset) < ShortDistance THEN ShortDuration
  ELSE ScrollDuration

\* the closure animateFrame of one smooth scrollTo call
AnimateClosure(seq, targetOffset) ==
  [kind |-> "animate", seq |-> seq, animationId |-> now,
   startOffset |-> scrollLeft, targetOffset |-> targetOffset,
   animationDuration |-> AnimationDuration(scrollLeft, targetOffset)]

\* the closure () => { container.style.scrollSnapType = '' } of an instant call
RestoreClosure(seq) ==
  [kind |-> "restore", seq |-> seq, animationId |-> 0,
   startOffset |-> 0, targetOffset |-> 0, animationDuration |-> 0]

\* clearTimeout(id): the pending timeout with that id is dropped
ClearTimeout(ts, id) == {t \in ts : t.id # id}

\* if (snapRestoreTimer.current) { clearTimeout(...); snapRestoreTimer.current = null }
CancelRestoreTimer(ts) ==
  IF snapRestoreTimer # NoTimer THEN ClearTimeout(ts, snapRestoreTimer) ELSE ts

\* scrollToFn(targetOffset, isSmooth), called with the container attached.
ScrollToFn(targetOffset, isSmooth) ==
  /\ mounted
  /\ timers' = CancelRestoreTimer(timers)
  /\ snapRestoreTimer' = NoTimer
  /\ scrollSnapType' = "none"
  /\ callSeq' = callSeq + 1
  /\ lastCall' = [seq |-> callSeq + 1, target |-> targetOffset, smooth |-> isSmooth]
  /\ frameWrites' = {}
  /\ snapWrites' = {}
  /\ IF ~isSmooth
       THEN /\ scrollLeft' = AssignScrollLeft(targetOffset)
            /\ rafQueue' = Append(rafQueue, RestoreClosure(callSeq + 1))
            /\ UNCHANGED <<currentAnimationId, lastSmoothSeq>>
       ELSE /\ currentAnimationId' = now
            /\ rafQueue' = Append(rafQueue, AnimateClosure(callSeq + 1, targetOffset))
            /\ lastSmoothSeq' = callSeq + 1
            /\ UNCHANGED scrollLeft
  /\ UNCHANGED <<now, mounted, scrollMax, finalWrite>>

\* One run of a queued callback; st is the container and hook state it acts on.
RunCallback(cb, st) ==
  IF cb.kind = "restore"
    THEN [st EXCEPT !.snap = "", !.sw = @ \cup {[by |-> "raf", seq |-> cb.seq]}]
  ELSE IF currentAnimationId # cb.animationId
    THEN st
  ELSE LET elapsed == now - cb.animationId
           off == OffsetAfterFrame(cb, elapsed)
       IN IF elapsed < cb.animationDuration
            THEN [st EXCEPT !.sl = AssignScrollLeft(off),
                            !.q = Append(@, cb),
                            !.fw = @ \cup {cb.seq}]
            ELSE [st EXCEPT !.sl = AssignScrollLeft(off),
                            !.ref = cb.seq,
                            !.ts = @ \cup {[id |-> cb.seq,
                                            animationId |-> cb.animationId,
                                            due |-> now + SnapRestoreDelay]},
                            !.fw = @ \cup {cb.seq},
                            !.fin = [@ EXCEPT ![cb.seq] = AssignScrollLeft(off)]]

RECURSIVE RunCallbacks(_, _)
RunCallbacks(q, st) ==
  IF q = <<>> THEN st ELSE RunCallbacks(Tail(q), RunCallback(Head(q), st))

\* no mouse-move acted in this step
NoDragEvent == dragWrite' = {} /\ UNCHANGED passedThreshold

\* no coordinator callback acted in this step
NoCoordEvent == frameWrites' = {} /\ snapWrites' = {}

\* One animation frame: the browser runs every callback queued before the
\* frame, in order; callbacks they request run in the next frame.
AnimationFrame ==
  /\ rafQueue # <<>>
  /\ LET st == RunCallbacks(rafQueue,
                 [sl |-> scrollLeft, snap |-> scrollSnapType, q |-> <<>>,
                  ref |-> snapRestoreTimer, ts |-> timers,
                  fw |-> {}, sw |-> {}, fin |-> finalWrite])
     IN /\ scrollLeft' = st.sl
        /\ scrollSnapType' = st.snap
        /\ rafQueue' = st.q
        /\ snapRestoreTimer' = st.ref
        /\ timers' = st.ts
        /\ frameWrites' = st.fw
        /\ snapWrites' = st.sw
        /\ finalWrite' = st.fin
  /\ NoDragEvent
  /\ UNCHANGED <<now, mounted, scrollMax, currentAnimationId, callSeq, lastCall, lastSmoothSeq>>
  /\ UNCHANGED <<dragVars, minScrollPosition, clockVars, utilVars, widgetVars, bookingVars>>

\* The snap-restore timeout of a completed animation fires.
SnapRestoreTimeout(t) ==
  /\ t \in timers
  /\ now >= t.due
  /\ timers' = timers \ {t}
  /\ IF currentAnimationId = t.animationId
       THEN /\ scrollSnapType' = ""
            /\ snapWrites' = {[by |-> "timer", seq |-> t.id]}
       ELSE /\ UNCHANGED scrollSnapType
            /\ snapWrites' = {}
  /\ frameWrites' = {}
  /\ NoDragEvent
  /\ UNCHANGED <<now, mounted, scrollLeft, scrollMax, rafQueue, hookVars,
                 callSeq, lastCall, lastSmoothSeq, finalWrite>>
  /\ UNCHANGED <<dragVars, minScrollPosition, clockVars, utilVars, widgetVars, bookingVars>>

Timeout == \E t \in timers : SnapRestoreTimeout(t)

\* useEffect cleanup on unmount: the recorded timer is cleared, the ref detaches.
Unmount ==
  /\ mounted
  /\ mounted' = FALSE
  /\ timers' = CancelRestoreTimer(timers)
  /\ NoCoordEvent
  /\ NoDragEvent
  /\ UNCHANGED <<now, scrollLeft, scrollMax, scrollSnapType, rafQueue, hookVars,
                 callSeq, lastCall, lastSmoothSeq, finalWrite>>
  /\ UNCHANGED <<dragVars, minScrollPosition, clockVars, utilVars, widgetVars, bookingVars>>

\* an animation that still passes its token check and has frames to run,
\* or a timeout that is not yet due
TimeNeeded ==
  \/ \E i \in 1..Len(rafQueue) :
       /\ rafQueue[i].kind = "animate"
       /\ rafQueue[i].animationId = currentAnimationId
       /\ now < rafQueue[i].animationId + rafQueue[i].animationDuration
  \/ \E t \in timers : now < t.due

\* The wall clock advances.
Tick ==
  /\ now < MaxCallTime \/ TimeNeeded
  /\ now' = now + Step
  /\ NoCoordEvent
  /\ NoDragEvent
  /\ UNCHANGED <<mounted, scrollLeft, scrollMax, scrollSnapType, rafQueue, timers, hookVars,
                 callSeq, lastCall, lastSmoothSeq, finalWrite>>
  /\ UNCHANGED <<dragVars, minScrollPosition, clockVars, utilVars, widgetVars, bookingVars>>

\* A caller of the coordinator issues scrollTo.
ScrollTo ==
  /\ callSeq < MaxCalls
  /\ now <= MaxCallTime
  /\ \E target \in ScrollTargets, isSmooth \in BOOLEAN : ScrollToFn(target, isSmooth)
  /\ NoDragEvent
  /\ UNCHANGED <<dragVars, minScrollPosition, clockVars, utilVars, widgetVars, bookingVars>>

(***************************************************************************)
(* useDragScroll                                                           *)
(***************************************************************************)

Xs == 0..MaxX

\* (x - startX) * dragConfig.multiplier, in whole pixels
Walk(x) == ((x - startX) * MultiplierNum) \div MultiplierDen

\* targetScroll after the optional Math.max(getMinScroll(), targetScroll)
TargetScrollUnclamped(x) == dragStartScroll - Walk(x)

TargetScroll(x) ==
  IF minScrollPosition # NoValue
    THEN Max(minScrollPosition, dragStartScroll - Walk(x))
    ELSE dragStartScroll - Walk(x)

\* onMouseDown
MouseDown(x) ==
  /\ mounted
  /\ isDown' = TRUE
  /\ startX' = x
  /\ dragStartScroll' = scrollLeft
  /\ dragWrite' = {}
  /\ passedThreshold' = FALSE
  /\ NoCoordEvent
  /\ UNCHANGED <<isDragging, minScrollPosition, clockVars, utilVars, widgetVars, bookingVars>>
  /\ UNCHANGED <<containerVars, hookVars, callSeq, lastCall, lastSmoothSeq, finalWrite>>

\* onMouseUp, which is also the onMouseLeave handler
MouseUp ==
  /\ isDown \/ isDragging
  /\ isDown' = FALSE
  /\ isDragging' = FALSE
  /\ IF isDragging THEN Render ELSE UNCHANGED renderAt
  /\ NoDragEvent
  /\ NoCoordEvent
  /\ UNCHANGED <<startX, dragStartScroll, minScrollPosition, clockVars, utilVars, widgetVars>>
  /\ UNCHANGED <<selectedTime, timeSinceDate, dateListVars>>
  /\ UNCHANGED <<containerVars, hookVars, callSeq, lastCall, lastSmoothSeq, finalWrite>>

\* onMouseMove with the pointer down and the container attached
MouseMove(x) ==
  /\ isDown
  /\ mounted
  /\ LET distance == Abs(x - startX)
     IN /\ isDragging' = (isDragging \/ distance > DragThreshold)
        /\ passedThreshold' = (passedThreshold \/ distance > DragThreshold)
        /\ IF isDragging \/ distance > DragThreshold
             THEN /\ scrollLeft' = AssignScrollLeft(TargetScroll(x))
                  /\ dragWrite' = {[raw |-> TargetScrollUnclamped(x),
                                     value |-> TargetScroll(x)]}
             ELSE /\ UNCHANGED scrollLeft
                  /\ dragWrite' = {}
  /\ IF isDragging' # isDragging THEN Render ELSE UNCHANGED renderAt
  /\ NoCoordEvent
  /\ UNCHANGED <<isDown, startX, dragStartScroll, minScrollPosition, clockVars, utilVars, widgetVars>>
  /\ UNCHANGED <<selectedTime, timeSinceDate, dateListVars>>
  /\ UNCHANGED <<now, mounted, scrollMax, scrollSnapType, rafQueue, timers, hookVars,
                 callSeq, lastCall, lastSmoothSeq, finalWrite>>

PointerDown == \E x \in Xs : MouseDown(x)
PointerMove == \E x \in Xs : MouseMove(x)

(***************************************************************************)
(* Specifications                                                          *)
(***************************************************************************)

CoordInit ==
  /\ now = StartTime
  /\ mounted = TRUE
  /\ scrollLeft = 0
  /\ scrollSnapType = ""
  /\ rafQueue = <<>>
  /\ timers = {}
  /\ currentAnimationId = 0
  /\ snapRestoreTimer = NoTimer
  /\ callSeq = 0
  /\ lastCall = [seq |-> 0, target |-> 0, smooth |-> FALSE]
  /\ lastSmoothSeq = 0
  /\ frameWrites = {}
  /\ snapWrites = {}
  /\ finalWrite = [s \in CallIds |-> NoValue]

DragInitIdle ==
  /\ isDown = FALSE
  /\ startX = 0
  /\ dragStartScroll = 0
  /\ isDragging = FALSE
  /\ dragWrite = {}
  /\ passedThreshold = FALSE

\* no utility function has been called on its own
NoUtil ==
  /\ utilCall = [fn |-> "none"]
  /\ utilResult = [threw |-> FALSE]

\* no time chosen yet, the date list at its start, no re-center pending
NoBooking ==
  /\ selectedTime = NoValue
  /\ timeSinceDate = FALSE
  /\ scrollSignal = 0
  /\ timePropWired = TRUE
  /\ dateScrollLeft = 0
  /\ dateRafQueue = << >>
  /\ lastTimeSelect = [slot |-> NoValue, day |-> 0, queued |-> FALSE, index |-> NoValue,
                       nowDay |-> 0, nowMinute |-> 0]

\* the hooks exercised on their own: no booking state, no TimeSelector around them
NoWidget ==
  /\ wallDay = 0
  /\ wallMinute = 0
  /\ selectedDate = [day |-> 0, listed |-> FALSE]
  /\ isToday = FALSE
  /\ firstAvailableIndex = 0
  /\ showArrows = [left |-> FALSE, right |-> TRUE]
  /\ memoAt = [day |-> 0, minute |-> 0]
  /\ autoScroll = [seq |-> 0, index |-> 0]
  /\ lastArrow = [seq |-> 0, index |-> 0, first |-> 0]
  /\ renderAt = [day |-> wallDay, minute |-> wallMinute]
  /\ NoBooking

\* The coordinator alone, driven by direct scrollTo calls.
Init ==
  /\ CoordInit
  /\ DragInitIdle
  /\ NoWidget
  /\ NoUtil
  /\ scrollMax = TotalSize - ContainerWidth
  /\ minScrollPosition = NoValue

Next ==
  \/ ScrollTo
  \/ AnimationFrame
  \/ Timeout
  \/ Tick
  \/ Unmount

Spec == Init /\ [][Next]_vars

\* The frames keep firing, due timeouts fire and the clock advances.
FairSpec ==
  /\ Init
  /\ [][Next]_vars
  /\ WF_vars(AnimationFrame)
  /\ WF_vars(Timeout)
  /\ WF_vars(Tick)

(***************************************************************************)
(* Claims about the snap/smooth-scroll coordinator                         *)
(***************************************************************************)

\* an animateFrame closure that still passes its token check is queued
AnimationPending ==
  \E i \in 1..Len(rafQueue) :
    /\ rafQueue[i].kind = "animate"
    /\ rafQueue[i].animationId = currentAnimationId

\* C1: once a smooth scrollTo(B) has been issued, no frame of an earlier
\* smooth call writes the scroll offset, and when no animation is pending
\* any more and B is still the last call, the container rests at B's target.
C1_SecondSmoothCallSupersedesFirst ==
  /\ \A s \in frameWrites : s >= lastSmoothSeq
  /\ (lastCall.smooth /\ ~AnimationPending) => scrollLeft = lastCall.target

\* C2: after a non-smooth scrollTo(t), while it is the last call, no frame
\* and no timer callback of an older animation acts: the offset stays at t.
C2_InstantCallInvalidatesAnimation ==
  (lastCall.seq > 0 /\ ~lastCall.smooth) =>
    /\ frameWrites = {}
    /\ \A w \in snapWrites : w.by # "timer"
    /\ scrollLeft = lastCall.target

\* C3: a smooth scrollTo that is never superseded (it stays the last call)
\* eventually completes, and the last offset it writes, the one its completion
\* frame leaves in the container, is exactly the requested target.
C3_SmoothScrollCompletesAtTarget ==
  <>[](lastCall.smooth => finalWrite[lastCall.seq] = lastCall.target)

\* the last call was smooth, started away from its target, has completed and
\* the container rests at the target
C3_Witness ==
  /\ lastCall.smooth
  /\ lastCall.seq = 1
  /\ finalWrite[1] = lastCall.target
  /\ scrollLeft = lastCall.target
  /\ ~AnimationPending
  /\ finalWrite[lastCall.seq] = lastCall.target
  /\ scrollLeft = lastCall.target
  /\ ~AnimationPending

\* C4: a snap re-enable timer re-enables CSS snap only when no scrollTo has
\* been issued after the call whose animation set the timer.
C4_SupersededTimerNeverRestoresSnap ==
  \A w \in snapWrites : w.by = "timer" => w.seq = callSeq

\* C5: after teardown no coordinator callback writes the scroll offset or the
\* snap style, and no snap re-enable timer is pending or created.
C5_NoCoordinatorWriteAfterTeardown ==
  ~mounted => (frameWrites = {} /\ snapWrites = {} /\ timers = {})

\* C19: every smooth scrollTo call gets a token that differs from the token
\* of every animation still in flight and of every pending re-enable timer,
\* so at most one animation's frames pass the token check at any time.
C19_TokensAreUnique ==
  /\ \A i, j \in 1..Len(rafQueue) :
       (/\ rafQueue[i].kind = "animate"
        /\ rafQueue[j].kind = "animate"
        /\ rafQueue[i].seq # rafQueue[j].seq)
         => rafQueue[i].animationId # rafQueue[j].animationId
  /\ \A i \in 1..Len(rafQueue) : \A t \in timers :
       (rafQueue[i].kind = "animate" /\ rafQueue[i].seq # t.id)
         => rafQueue[i].animationId # t.animationId
  /\ Cardinality({rafQueue[i].seq : i \in {k \in 1..Len(rafQueue) :
                     /\ rafQueue[k].kind = "animate"
                     /\ rafQueue[k].animationId = currentAnimationId}}) <= 1

\* C20: with no teardown, snap is eventually re-enabled after the last
\* scrollTo call; while a smooth call is the last call, snap is re-enabled
\* only after its animation has completed, and by a timer, never by a frame.
C20_SnapReenabledAfterGraceDelay ==
  /\ []((mounted /\ lastCall.seq > 0 /\ lastCall.smooth /\ scrollSnapType = "") =>
         (/\ finalWrite[lastCall.seq] # NoValue
          /\ \A w \in snapWrites : w.by = "timer"))
  /\ <>[]((mounted /\ lastCall.seq > 0) => scrollSnapType = "")

\* C25: from the moment a smooth scrollTo is issued until its animation
\* completes or another call supersedes it, the inline scroll-snap stays
\* 'none': no callback of an earlier call turns snap back on meanwhile.
C25_SnapStaysOffWhileAnimating ==
  (lastCall.seq > 0 /\ lastCall.smooth /\ finalWrite[lastCall.seq] = NoValue)
    => scrollSnapType = "none"

\* C30: at any time at most one snap re-enable timer is pending, and it is
\* the one recorded in snapRestoreTimer, so that cancelling the recorded
\* timer cancels every pending re-enable timer.
C30_OnlyRecordedTimerPending ==
  /\ Cardinality(timers) <= 1
  /\ \A t \in timers : t.id = snapRestoreTimer

\* Offsets the list is at when a drag starts, and boundaries getMinScroll returns.
DragStartOffsets == {0, 4, 20}
DragBoundaries == {NoValue, 0, 10}

\* The drag controller alone on an attached container.
DragInit ==
  /\ CoordInit
  /\ DragInitIdle
  /\ NoWidget
  /\ NoUtil
  /\ scrollMax = DragScrollMax
  /\ minScrollPosition \in DragBoundaries

\* the list is scrolled natively (wheel, touch) while no button is held
NativeScroll ==
  /\ ~isDown
  /\ \E v \in DragStartOffsets : scrollLeft' = v
  /\ NoDragEvent
  /\ NoCoordEvent
  /\ UNCHANGED <<dragVars, minScrollPosition, clockVars, utilVars, widgetVars, bookingVars>>
  /\ UNCHANGED <<now, mounted, scrollMax, scrollSnapType, rafQueue, timers, hookVars,
                 callSeq, lastCall, lastSmoothSeq, finalWrite>>

DragNext ==
  \/ PointerDown
  \/ PointerMove
  \/ MouseUp
  \/ NativeScroll

DragSpec == DragInit /\ [][DragNext]_vars

(***************************************************************************)
(* useDragScroll and useSnapScroll on one scroll container, as the         *)
(* TimeSelector mounts them                                                *)
(***************************************************************************)

\* both ends of the list's scroll range
ListEnds == {0, DragScrollMax}

\* the component asks the coordinator to scroll to an end of the list
ProgrammaticScroll ==
  /\ callSeq < MaxSharedCalls
  /\ now <= MaxCallTime
  /\ \E target \in ListEnds, isSmooth \in BOOLEAN : ScrollToFn(target, isSmooth)
  /\ NoDragEvent
  /\ UNCHANGED <<dragVars, minScrollPosition, clockVars, utilVars, widgetVars, bookingVars>>

\* the pointer goes down, and moves, at either end of the pointer range
PointerEnds == {0, MaxX}
SharedPointerDown == \E x \in PointerEnds : MouseDown(x)
SharedPointerMove == \E x \in PointerEnds : MouseMove(x)

\* both hooks receive the same containerRef; the drag has a boundary or none
SharedInit ==
  /\ CoordInit
  /\ DragInitIdle
  /\ NoWidget
  /\ NoUtil
  /\ scrollMax = DragScrollMax
  /\ minScrollPosition \in DragBoundaries

SharedNext ==
  \/ ProgrammaticScroll
  \/ AnimationFrame
  \/ Timeout
  \/ Tick
  \/ SharedPointerDown
  \/ SharedPointerMove
  \/ MouseUp

SharedSpec == SharedInit /\ [][SharedNext]_vars

\* C22: while a drag is engaged no animation-frame callback of the
\* coordinator writes the scroll offset, and while an animation is in flight
\* no drag move writes it.
C22_DragAndAnimationNeverInterleave ==
  /\ isDragging => frameWrites = {}
  /\ AnimationPending => dragWrite = {}

(***************************************************************************)
(* TimeSelector (clamped variant) under the booking state                  *)
(***************************************************************************)

\* virtualizer.scrollToIndex(index, { align: 'start' }): the item's start
\* offset, kept inside the scroll range, is handed to scrollToFn
OffsetForIndex(index) == Max(0, Min(index * (ItemWidth + Gap), scrollMax))

\* checkScrollPosition with the left arrow measured from offset 0
CheckScrollPositionFromStart(offset, minPosition) ==
  [left |-> offset > 1, right |-> offset < scrollMax - 1]

\* what checkScrollPosition stores in showArrows
CheckScrollPosition(offset, minPosition) ==
  [left |-> offset > minPosition + 1, right |-> offset < scrollMax - 1]

\* handleDateSelect with the spread of prev kept for selectedTime
HandleDateSelectKeepingTime(d) ==
  /\ selectedDate' = [day |-> d, listed |-> TRUE]
  /\ UNCHANGED selectedTime
  /\ timeSinceDate' = FALSE

\* useBooking.handleDateSelect(date): the date is stored, the time is cleared
HandleDateSelect(d) ==
  /\ selectedDate' = [day |-> d, listed |-> TRUE]
  /\ selectedTime' = NoValue
  /\ timeSinceDate' = FALSE

\* selectedDate: null
NoDate == [day |-> NoValue, listed |-> FALSE]

\* useBooking.handleTimeSelect(time): the time is stored, the date is kept
HandleTimeSelect(slot) ==
  /\ selectedTime' = slot
  /\ timeSinceDate' = TRUE
  /\ UNCHANGED selectedDate

\* useBooking.reset(): both fields are set to null
Reset ==
  /\ selectedDate' = NoDate
  /\ selectedTime' = NoValue
  /\ timeSinceDate' = FALSE

\* const isValid = state.selectedDate !== null && state.selectedTime !== null
IsValid == selectedDate # NoDate /\ selectedTime # NoValue

\* The user picks a date: handleDateSelect, then the TimeSelector re-renders
\* with new memos, re-checks the arrows and runs its auto-scroll effect.
SelectDate(d) ==
  /\ mounted
  /\ callSeq < MaxWidgetCalls
  /\ now <= MaxCallTime
  /\ selectedDate # [day |-> d, listed |-> TRUE]
  /\ HandleDateSelect(d)
  /\ isToday' = IsSameDay(d, wallDay)
  /\ firstAvailableIndex' = FirstAvailableIndexMemo(isToday', d, wallDay, wallMinute)
  /\ minScrollPosition' = MinScrollPositionMemo(firstAvailableIndex')
  /\ memoAt' = [day |-> wallDay, minute |-> wallMinute]
  /\ showArrows' = CheckScrollPosition(scrollLeft, minScrollPosition')
  /\ autoScroll' = [seq |-> callSeq + 1,
                    index |-> IF isToday' THEN firstAvailableIndex' ELSE 0]
  /\ ScrollToFn(OffsetForIndex(autoScroll'.index), TRUE)
  /\ Render
  /\ NoDragEvent
  /\ UNCHANGED <<dragVars, clockVars, utilVars, dateListVars, lastArrow>>

\* scrollByArrow(direction), from an enabled arrow button
ScrollByArrow(direction) ==
  /\ mounted
  /\ callSeq < MaxWidgetCalls
  /\ now <= MaxCallTime
  /\ showArrows[direction]
  /\ LET currentIndex == Round(scrollLeft, ItemWidth + Gap)
         targetIndex ==
           IF direction = "left"
             THEN Max(firstAvailableIndex, currentIndex - ArrowScrollStep)
             ELSE Min(Len(timeSlots) - 1, currentIndex + ArrowScrollStep)
     IN /\ ScrollToFn(OffsetForIndex(targetIndex), TRUE)
        /\ lastArrow' = [seq |-> callSeq + 1, index |-> targetIndex,
                         first |-> firstAvailableIndex]
  /\ NoDragEvent
  /\ UNCHANGED <<dragVars, minScrollPosition, clockVars, utilVars, bookingVars>>
  /\ UNCHANGED <<selectedDate, isToday, firstAvailableIndex, showArrows, memoAt, autoScroll>>

\* onScroll: the scroll event of an offset change reaches checkScrollPosition
ScrollEvent ==
  /\ mounted
  /\ showArrows # CheckScrollPosition(scrollLeft, minScrollPosition)
  /\ showArrows' = CheckScrollPosition(scrollLeft, minScrollPosition)
  /\ NoDragEvent
  /\ NoCoordEvent
  /\ UNCHANGED <<containerVars, hookVars, callSeq, lastCall, lastSmoothSeq, finalWrite>>
  /\ UNCHANGED <<dragVars, minScrollPosition, clockVars, utilVars>>
  /\ Render
  /\ UNCHANGED <<selectedDate, isToday, firstAvailableIndex, memoAt, autoScroll, lastArrow>>
  /\ UNCHANGED <<selectedTime, timeSinceDate, dateListVars>>

\* instants the wall clock is observed at, as [day, minute of the day]
WallSamples ==
  << [day |-> 0, minute |-> 7 * 60 + 30],
     [day |-> 0, minute |-> 10 * 60 + 7],
     [day |-> 0, minute |-> 10 * 60 + 15],
     [day |-> 0, minute |-> 19 * 60 + 20],
     [day |-> 0, minute |-> 19 * 60 + 50],
     [day |-> 1, minute |-> 5] >>

\* The wall clock moves on to a later instant.
WallClock ==
  /\ now <= MaxCallTime
  /\ \E i \in 2..Len(WallSamples) :
       /\ WallSamples[i - 1] = [day |-> wallDay, minute |-> wallMinute]
       /\ wallDay' = WallSamples[i].day
       /\ wallMinute' = WallSamples[i].minute
  /\ NoDragEvent
  /\ NoCoordEvent
  /\ UNCHANGED <<containerVars, hookVars, callSeq, lastCall, lastSmoothSeq, finalWrite>>
  /\ UNCHANGED <<dragVars, minScrollPosition, widgetVars, bookingVars, utilVars>>

\* The TimeSelector after its first layout: booking state from useBooking,
\* memos computed, and the auto-scroll of the mount effect issued.
WidgetInit ==
  /\ \E i \in 1..(Len(WallSamples) - 1) :
       /\ wallDay = WallSamples[i].day
       /\ wallMinute = WallSamples[i].minute
  /\ selectedDate = [day |-> GetDefaultDate(wallDay, wallMinute), listed |-> FALSE]
  /\ isToday = IsSameDay(selectedDate.day, wallDay)
  /\ firstAvailableIndex =
       FirstAvailableIndexMemo(isToday, selectedDate.day, wallDay, wallMinute)
  /\ minScrollPosition = MinScrollPositionMemo(firstAvailableIndex)
  /\ memoAt = [day |-> wallDay, minute |-> wallMinute]
  /\ autoScroll = [seq |-> 1, index |-> IF isToday THEN firstAvailableIndex ELSE 0]
  /\ lastArrow = [seq |-> 0, index |-> 0, first |-> 0]
  /\ showArrows = [left |-> FALSE, right |-> TRUE]
  /\ now = StartTime
  /\ mounted = TRUE
  /\ scrollLeft = 0
  /\ scrollMax = TotalSize - ContainerWidth
  /\ scrollSnapType = "none"
  /\ rafQueue = << [kind |-> "animate", seq |-> 1, animationId |-> StartTime,
                    startOffset |-> 0,
                    targetOffset |-> OffsetForIndex(autoScroll.index),
                    animationDuration |->
                      AnimationDuration(0, OffsetForIndex(autoScroll.index))] >>
  /\ timers = {}
  /\ currentAnimationId = StartTime
  /\ snapRestoreTimer = NoTimer
  /\ callSeq = 1
  /\ lastCall = [seq |-> 1, target |-> OffsetForIndex(autoScroll.index), smooth |-> TRUE]
  /\ lastSmoothSeq = 1
  /\ frameWrites = {}
  /\ snapWrites = {}
  /\ finalWrite = [s \in CallIds |-> NoValue]
  /\ renderAt = [day |-> wallDay, minute |-> wallMinute]
  /\ DragInitIdle
  /\ NoBooking
  /\ NoUtil

DateSelect == \E d \in Days : SelectDate(d)
ArrowClick == \E direction \in {"left", "right"} : ScrollByArrow(direction)

WidgetNext ==
  \/ DateSelect
  \/ ArrowClick
  \/ ScrollEvent
  \/ WallClock
  \/ AnimationFrame
  \/ Timeout
  \/ Tick

WidgetSpec == WidgetInit /\ [][WidgetNext]_vars

\* The frames keep firing, due timeouts fire and the clock advances.
FairWidgetSpec ==
  /\ WidgetInit
  /\ [][WidgetNext]_vars
  /\ WF_vars(AnimationFrame)
  /\ WF_vars(Timeout)
  /\ WF_vars(Tick)

(***************************************************************************)
(* Claims about the clamped TimeSelector (checked under WidgetSpec)        *)
(***************************************************************************)

\* C8: whenever the selected date is today, the time list's scroll offset is
\* never below firstAvailableIndex * (itemWidth + gap), in every state reached
\* by date changes, arrow clicks and the frames of a programmatic scroll.
C8_OffsetNeverBelowFirstAvailable ==
  isToday => scrollLeft >= firstAvailableIndex * (ItemWidth + Gap)

\* minutes of the day at which the slot of 0-based index i starts
SlotStart(i) == DEFAULT_START_HOUR * MINUTES_IN_HOUR + i * DEFAULT_INTERVAL_MINUTES

\* 0-based indices of the slots of the selected date whose date-time is not
\* strictly before the instant the index was computed at
NotPastIndices ==
  {i \in 0..(Len(timeSlots) - 1) :
     selectedDate.day * MinutesPerDay + SlotStart(i)
       >= memoAt.day * MinutesPerDay + memoAt.minute}

\* C9: for today firstAvailableIndex is the least index whose slot date-time
\* is not strictly before now (at 10:07 the 10:15 slot, index 9); it is 0 for
\* a future date and 0 when no slot of today is still available.
C9_FirstAvailableIndexIsLeastNotPast ==
  /\ (selectedDate.day = memoAt.day /\ NotPastIndices # {}) =>
       /\ firstAvailableIndex \in NotPastIndices
       /\ \A i \in NotPastIndices : firstAvailableIndex <= i
  /\ (selectedDate.day = memoAt.day /\ memoAt.minute = 10 * 60 + 7) =>
       /\ firstAvailableIndex = 9
       /\ timeSlots[firstAvailableIndex + 1] = [hours |-> 10, minutes |-> 15]
  /\ selectedDate.day > memoAt.day => firstAvailableIndex = 0
  /\ (selectedDate.day = memoAt.day /\ NotPastIndices = {}) => firstAvailableIndex = 0

\* today was selected again at 10:07 and the index points at the 10:15 slot
C9_Witness ==
  /\ selectedDate = [day |-> 0, listed |-> TRUE]
  /\ memoAt = [day |-> 0, minute |-> 10 * 60 + 7]
  /\ isToday
  /\ firstAvailableIndex = 9
  /\ minScrollPosition = 9 * (ItemWidth + Gap)

C28_ArrowTargetWithinAvailableSlots ==
  lastArrow.seq > 0 =>
    (lastArrow.first <= lastArrow.index /\ lastArrow.index <= Len(timeSlots) - 1)

\* the button of the slot of 0-based index i is disabled in the last render
DisabledAsRendered(i) ==
  selectedDate.day * MinutesPerDay + SlotStart(i)
    < renderAt.day * MinutesPerDay + renderAt.minute

\* C29: while today is the selected date the slot at firstAvailableIndex is
\* an enabled slot, every slot before it is disabled, and minScrollPosition
\* is that slot's start offset: the index and the boundary advance together
\* with the set of disabled past slots when the wall clock advances.
C29_FirstAvailableSlotIsEnabled ==
  selectedDate.day = wallDay =>
    /\ ~DisabledAsRendered(firstAvailableIndex)
    /\ \A i \in 0..(Len(timeSlots) - 1) : i < firstAvailableIndex => DisabledAsRendered(i)
    /\ minScrollPosition = firstAvailableIndex * (ItemWidth + Gap)

\* the index the auto-scroll effect has to target for the selected date, at
\* the instant the effect ran: the least not-past slot of today, 0 otherwise
ExpectedAutoScrollIndex ==
  IF selectedDate.day = memoAt.day /\ NotPastIndices # {}
    THEN CHOOSE i \in NotPastIndices : \A j \in NotPastIndices : i <= j
    ELSE 0

\* C21: after each change of the selected date an auto-scroll is issued whose
\* target is firstAvailableIndex for today and index 0 for a future date, and
\* while that auto-scroll stays the last scroll request the time list
\* eventually rests at the start offset of that index.
C21_AutoScrollReachesFirstAvailable ==
  /\ [](autoScroll.index = ExpectedAutoScrollIndex)
  /\ <>[](lastCall.seq = autoScroll.seq =>
            scrollLeft = autoScroll.index * (ItemWidth + Gap))

(***************************************************************************)
(* BookingCard with the virtualized DateSelector.  The TimeSelector is the *)
(* source of onTimeSelect events; its own list is the subject of           *)
(* WidgetSpec.                                                             *)
(***************************************************************************)

\* generateDateRange(): every day from the day of the mount (day 0) to three
\* months ahead, both ends included; a month is taken as 30 days
DateCount == DEFAULT_MONTHS_AHEAD * 30 + 1

\* dates.findIndex(({ date }) => isSameDay(date, selectedDate))
FindDateIndex(day) == IF day >= 0 /\ day < DateCount THEN day ELSE -1

\* useResponsiveLayout.calculate for DATE_CONFIG on the tablet tier
DateContainerWidth ==
  LET spaceForList == WrapperWidth - ReservedSpaceMd - HintWidthMd
      maxItems == (spaceForList + DateGap + 1) \div (DateItemWidth + DateGap)
      safeCount == Max(1, maxItems)
  IN safeCount * DateItemWidth + (safeCount - 1) * DateGap + HintWidthMd

DateScrollMax ==
  DateCount * DateItemWidth + (DateCount - 1) * DateGap - DateContainerWidth

\* virtualizer.scrollToIndex(index, { align: 'center' }): the offset that puts
\* the item in the middle of the container, kept inside the scroll range
DateCenterOffset(index) ==
  Max(0, Min(DateScrollMax,
             index * (DateItemWidth + DateGap)
               - (DateContainerWidth - DateItemWidth) \div 2))

\* the selectedTime prop the DateSelector element receives from BookingCard
DateSelectorTimeProp(time) == IF timePropWired THEN time ELSE NoValue

\* The "scroll back to selected date" effect of the DateSelector after a
\* render: it runs when selectedTime or selectedDate differ from the previous
\* render, returns early without a time, and otherwise hands a re-center of
\* the selected date's index to requestAnimationFrame.  The result is the
\* index queued, or NoValue when nothing is queued.
RecenterEffect(prevTime, prevDate, time, date) ==
  IF prevTime = time /\ prevDate = date THEN NoValue
  ELSE IF time = NoValue THEN NoValue
  ELSE IF FindDateIndex(date.day) >= 0 THEN FindDateIndex(date.day)
  ELSE NoValue

\* slots and dates the user clicks
BookingSlots == {9, 40}
BookingDays == {0, 1, 40}
DateOffsets == {0, DateScrollMax}

\* A click on an enabled slot button: onTimeSelectWrapper(time), that is
\* handleTimeSelect(time) and setScrollSignal(Date.now()), then the render
\* and the effects of the DateSelector.
TimeSelect(slot) ==
  /\ mounted
  /\ Len(dateRafQueue) < MaxPendingFrames
  /\ ~IsTimeSlotInPast(selectedDate.day, timeSlots[slot + 1], renderAt.day, renderAt.minute)
  /\ HandleTimeSelect(slot)
  /\ Render
  /\ scrollSignal' = now
  /\ LET index == RecenterEffect(DateSelectorTimeProp(selectedTime), selectedDate,
                                 DateSelectorTimeProp(slot), selectedDate)
     IN /\ dateRafQueue' = IF index # NoValue THEN Append(dateRafQueue, index)
                           ELSE dateRafQueue
        /\ lastTimeSelect' = [slot |-> slot, day |-> selectedDate.day,
                              queued |-> index # NoValue, index |-> index,
                              nowDay |-> wallDay, nowMinute |-> wallMinute]
  /\ NoDragEvent
  /\ NoCoordEvent
  /\ UNCHANGED <<containerVars, hookVars, callSeq, lastCall, lastSmoothSeq, finalWrite>>
  /\ UNCHANGED <<dragVars, minScrollPosition, clockVars, utilVars, widgetVars>>
  /\ UNCHANGED <<timePropWired, dateScrollLeft>>

\* A click on a date of the list: handleDateSelect(date), then the render and
\* the effects of the DateSelector.
DateClick(d) ==
  /\ mounted
  /\ selectedDate # [day |-> d, listed |-> TRUE] \/ selectedTime # NoValue
  /\ HandleDateSelect(d)
  /\ Render
  /\ LET index == RecenterEffect(DateSelectorTimeProp(selectedTime), selectedDate,
                                 DateSelectorTimeProp(NoValue),
                                 [day |-> d, listed |-> TRUE])
     IN dateRafQueue' = IF index # NoValue THEN Append(dateRafQueue, index)
                        ELSE dateRafQueue
  /\ NoDragEvent
  /\ NoCoordEvent
  /\ UNCHANGED <<containerVars, hookVars, callSeq, lastCall, lastSmoothSeq, finalWrite>>
  /\ UNCHANGED <<dragVars, minScrollPosition, clockVars, utilVars>>
  /\ UNCHANGED <<isToday, firstAvailableIndex, showArrows, memoAt, autoScroll, lastArrow>>
  /\ UNCHANGED <<scrollSignal, timePropWired, dateScrollLeft, lastTimeSelect>>

\* The animation frame of a queued re-center: virtualizer.scrollToIndex(
\* selectedIndex, { align: 'center', behavior: 'smooth' }) on the date list.
DateFrame ==
  /\ mounted
  /\ dateRafQueue # << >>
  /\ dateScrollLeft' = DateCenterOffset(Head(dateRafQueue))
  /\ dateRafQueue' = Tail(dateRafQueue)
  /\ NoDragEvent
  /\ NoCoordEvent
  /\ UNCHANGED <<containerVars, hookVars, callSeq, lastCall, lastSmoothSeq, finalWrite>>
  /\ UNCHANGED <<dragVars, minScrollPosition, clockVars, utilVars, widgetVars>>
  /\ UNCHANGED <<selectedTime, timeSinceDate, renderAt, scrollSignal, timePropWired,
                 lastTimeSelect>>

\* The user scrolls the date list by hand.
DateListScroll ==
  /\ mounted
  /\ \E offset \in DateOffsets :
       /\ offset # dateScrollLeft
       /\ dateScrollLeft' = offset
  /\ NoDragEvent
  /\ NoCoordEvent
  /\ UNCHANGED <<containerVars, hookVars, callSeq, lastCall, lastSmoothSeq, finalWrite>>
  /\ UNCHANGED <<dragVars, minScrollPosition, clockVars, utilVars, widgetVars>>
  /\ UNCHANGED <<selectedTime, timeSinceDate, renderAt, scrollSignal, timePropWired,
                 dateRafQueue, lastTimeSelect>>

\* The booking card after its first render: the default date, no time, the
\* date list at its start.  The DateSelector element is rendered either with
\* the selectedTime prop its interface declares or, as BookingCard.tsx
\* renders it, with scrollToSelectionSignal only.
BookingInit ==
  /\ CoordInit
  /\ DragInitIdle
  /\ NoUtil
  /\ scrollMax = TotalSize - ContainerWidth
  /\ \E i \in 1..(Len(WallSamples) - 1) :
       /\ wallDay = WallSamples[i].day
       /\ wallMinute = WallSamples[i].minute
  /\ selectedDate = [day |-> GetDefaultDate(wallDay, wallMinute), listed |-> FALSE]
  /\ isToday = IsSameDay(selectedDate.day, wallDay)
  /\ firstAvailableIndex =
       FirstAvailableIndexMemo(isToday, selectedDate.day, wallDay, wallMinute)
  /\ minScrollPosition = MinScrollPositionMemo(firstAvailableIndex)
  /\ memoAt = [day |-> wallDay, minute |-> wallMinute]
  /\ autoScroll = [seq |-> 0, index |-> 0]
  /\ lastArrow = [seq |-> 0, index |-> 0, first |-> 0]
  /\ showArrows = [left |-> FALSE, right |-> TRUE]
  /\ selectedTime = NoValue
  /\ timeSinceDate = FALSE
  /\ renderAt = [day |-> wallDay, minute |-> wallMinute]
  /\ scrollSignal = 0
  /\ timePropWired \in BOOLEAN
  /\ dateScrollLeft = 0
  /\ dateRafQueue = << >>
  /\ lastTimeSelect = [slot |-> NoValue, day |-> 0, queued |-> FALSE, index |-> NoValue,
                       nowDay |-> 0, nowMinute |-> 0]

OnTimeSelect == \E slot \in BookingSlots : TimeSelect(slot)
OnDateSelect == \E d \in BookingDays : DateClick(d)

BookingNext ==
  \/ OnTimeSelect
  \/ OnDateSelect
  \/ DateFrame
  \/ DateListScroll
  \/ WallClock
  \/ Tick

BookingSpec == BookingInit /\ [][BookingNext]_vars

(***************************************************************************)
(* Claims about the booking card (checked under BookingSpec)               *)
(***************************************************************************)

\* C10: every onTimeSelect event with a date selected, whatever the date
\* list's scroll position, issues a re-center scroll of the date list that
\* targets the index of the selected date.
C10_EveryTimeSelectIssuesRecenter ==
  lastTimeSelect.slot # NoValue =>
    /\ lastTimeSelect.queued
    /\ lastTimeSelect.index = lastTimeSelect.day

\* C11: every handleDateSelect leaves selectedTime none, and a selectedTime
\* that is not none was chosen after the most recent date selection.
C11_TimeNeverOutlivesDate ==
  /\ selectedTime # NoValue => timeSinceDate
  /\ selectedTime # NoValue =>
       (lastTimeSelect.slot = selectedTime /\ lastTimeSelect.day = selectedDate.day)

\* a date was picked from the list and a time was chosen against it
C11_Witness ==
  /\ selectedDate = [day |-> 40, listed |-> TRUE]
  /\ selectedTime = 9
  /\ timeSinceDate
  /\ lastTimeSelect.day = 40

(***************************************************************************)
(* useBooking on its own: the three handlers it returns, in any order      *)
(***************************************************************************)

\* a handler of useBooking changes the booking state and nothing else
OnlyBookingState ==
  /\ NoDragEvent
  /\ NoCoordEvent
  /\ UNCHANGED <<containerVars, hookVars, callSeq, lastCall, lastSmoothSeq, finalWrite>>
  /\ UNCHANGED <<dragVars, minScrollPosition, clockVars, utilVars>>
  /\ UNCHANGED <<isToday, firstAvailableIndex, showArrows, memoAt, autoScroll, lastArrow>>
  /\ UNCHANGED <<renderAt, dateListVars>>

HandleDateSelectCall ==
  \E d \in BookingDays :
    /\ selectedDate # [day |-> d, listed |-> TRUE] \/ selectedTime # NoValue
    /\ HandleDateSelect(d)
    /\ OnlyBookingState

HandleTimeSelectCall ==
  \E slot \in 0..(Len(timeSlots) - 1) :
    /\ selectedTime # slot
    /\ HandleTimeSelect(slot)
    /\ OnlyBookingState

ResetCall ==
  /\ selectedDate # NoDate \/ selectedTime # NoValue
  /\ Reset
  /\ OnlyBookingState

UseBookingNext ==
  \/ HandleDateSelectCall
  \/ HandleTimeSelectCall
  \/ ResetCall

UseBookingSpec == BookingInit /\ [][UseBookingNext]_vars

\* C27: after any sequence of handleDateSelect, handleTimeSelect and reset,
\* isValid is true exactly when both selectedDate and selectedTime are set,
\* and selectedTime is never set while selectedDate is none.
C27_TimeOnlyWithDate ==
  /\ IsValid <=> (selectedDate.day # NoValue /\ selectedTime \in 0..(Len(timeSlots) - 1))
  /\ selectedTime # NoValue => selectedDate # NoDate

\* C24: onTimeSelect is never fired for a slot whose date-time on the
\* selected date is strictly before now: at the moment a time is selected the
\* combination of selectedDate and selectedTime is not in the past.
C24_SelectedTimeIsNeverPast ==
  lastTimeSelect.slot # NoValue =>
    lastTimeSelect.day * MinutesPerDay + SlotStart(lastTimeSelect.slot)
      >= lastTimeSelect.nowDay * MinutesPerDay + lastTimeSelect.nowMinute

(***************************************************************************)
(* The utility functions called on their own                               *)
(***************************************************************************)

\* BREAKPOINTS of useHorizontalScrollLayout.ts
BREAKPOINT_MD == 768
BREAKPOINT_XL == 1920

\* TIME_CONFIG of TimeSelector.tsx and DATE_CONFIG of DateSelector.tsx
TIME_CONFIG ==
  [base |-> [width |-> ItemWidth, gap |-> Gap],
   xl |-> [width |-> 88, gap |-> 12],
   reservedSpace |-> [md |-> ReservedSpaceMd, base |-> 16],
   hintWidth |-> [md |-> HintWidthMd, base |-> 20]]

DATE_CONFIG ==
  [base |-> [width |-> DateItemWidth, gap |-> DateGap],
   xl |-> [width |-> 72, gap |-> 12],
   reservedSpace |-> [md |-> 70, base |-> 16],
   hintWidth |-> [md |-> 0, base |-> 20]]

\* const current = isXL ? config.xl : config.base
CurrentTier(config, innerWidth) ==
  IF innerWidth >= BREAKPOINT_XL THEN config.xl ELSE config.base

\* const currentHint = isMD ? (config.hintWidth?.md || 0) : (config.hintWidth?.base || 0)
CurrentHint(config, innerWidth) ==
  IF innerWidth >= BREAKPOINT_MD THEN config.hintWidth.md ELSE config.hintWidth.base

\* const reserved = isMD ? config.reservedSpace.md : config.reservedSpace.base
Reserved(config, innerWidth) ==
  IF innerWidth >= BREAKPOINT_MD THEN config.reservedSpace.md ELSE config.reservedSpace.base

\* useResponsiveLayout.calculate: the layout handed to setLayout for a window
\* of innerWidth and a wrapper of offsetWidth totalWidth
Calculate(config, innerWidth, totalWidth) ==
  LET current == CurrentTier(config, innerWidth)
      currentHint == CurrentHint(config, innerWidth)
      reserved == Reserved(config, innerWidth)
      spaceForList == totalWidth - reserved - currentHint
      maxItems == (spaceForList + current.gap + 1) \div (current.width + current.gap)
      safeCount == Max(1, maxItems)
      exactWidth == safeCount * current.width + (safeCount - 1) * current.gap + currentHint
  IN [itemWidth |-> current.width, gap |-> current.gap, containerWidth |-> exactWidth]

\* window widths, one per breakpoint tier, and wrapper widths
WindowWidths == {340, BREAKPOINT_MD, BREAKPOINT_XL}
WrapperWidths == 0..MaxWrapperWidth

\* calculate() runs for a window and a wrapper of some size
CalculateCall ==
  /\ utilCall.fn = "none"
  /\ \E config \in {TIME_CONFIG, DATE_CONFIG}, innerWidth \in WindowWidths,
        totalWidth \in WrapperWidths :
       /\ utilCall' = [fn |-> "calculate", config |-> config,
                       innerWidth |-> innerWidth, totalWidth |-> totalWidth]
       /\ utilResult' = [threw |-> FALSE,
                         layout |-> Calculate(config, innerWidth, totalWidth)]
  /\ NoDragEvent
  /\ NoCoordEvent
  /\ UNCHANGED <<containerVars, hookVars, callSeq, lastCall, lastSmoothSeq, finalWrite>>
  /\ UNCHANGED <<dragVars, minScrollPosition, clockVars, widgetVars, bookingVars>>

\* C12: for every tier and every wrapper width >= one item's width + the
\* tier's reserved space, containerWidth holds a whole number >= 1 of items
\* and is <= wrapper width minus reserved space.
C12_ContainerWidthFitsWrapper ==
  (utilCall.fn = "calculate") =>
    LET cfg == utilCall.config
        xl == utilCall.innerWidth >= 1920
        md == utilCall.innerWidth >= 768
        width == IF xl THEN cfg.xl.width ELSE cfg.base.width
        gap == IF xl THEN cfg.xl.gap ELSE cfg.base.gap
        hint == IF md THEN cfg.hintWidth.md ELSE cfg.hintWidth.base
        reserved == IF md THEN cfg.reservedSpace.md ELSE cfg.reservedSpace.base
        containerWidth == utilResult.layout.containerWidth
    IN utilCall.totalWidth >= width + reserved =>
         /\ \E n \in 1..(utilCall.totalWidth + 1) :
              containerWidth = n * width + (n - 1) * gap + hint
         /\ containerWidth <= utilCall.totalWidth - reserved

\* timeUtils: MIN_HOUR, MAX_HOUR; dateUtils: MIN_MONTHS, MAX_MONTHS
MIN_HOUR == 0
MAX_HOUR == 24
MIN_MONTHS == 1
MAX_MONTHS == 12

\* the validation of generateTimeSlots with the interval bound written as >=
TimeSlotsArgsRejectedAtSixty(startHour, endHour, intervalMinutes) ==
  \/ startHour < MIN_HOUR \/ startHour >= MAX_HOUR
  \/ endHour <= startHour \/ endHour > MAX_HOUR
  \/ intervalMinutes <= 0 \/ intervalMinutes >= MINUTES_IN_HOUR

\* the three validation checks of generateTimeSlots: one of them throws
TimeSlotsArgsRejected(startHour, endHour, intervalMinutes) ==
  \/ startHour < MIN_HOUR \/ startHour >= MAX_HOUR
  \/ endHour <= startHour \/ endHour > MAX_HOUR
  \/ intervalMinutes <= 0 \/ intervalMinutes > MINUTES_IN_HOUR

\* the validation check of generateDateRange
DateRangeArgsRejected(monthsAhead) ==
  monthsAhead < MIN_MONTHS \/ monthsAhead > MAX_MONTHS

\* arguments the generators are called with: the domains and their neighbours
HourArgs == (MIN_HOUR - 1)..(MAX_HOUR + 1)
IntervalArgs == {-1, 0, 1, 7, 10, 15, 20, 25, 30, 45, 59, 60, 61}
MonthArgs == (MIN_MONTHS - 1)..(MAX_MONTHS + 1)

\* generateTimeSlots(startHour, endHour, intervalMinutes) is called
GenerateTimeSlotsCall ==
  /\ utilCall.fn = "none"
  /\ \E startHour \in HourArgs, endHour \in HourArgs, intervalMinutes \in IntervalArgs :
       /\ utilCall' = [fn |-> "generateTimeSlots", startHour |-> startHour,
                       endHour |-> endHour, intervalMinutes |-> intervalMinutes]
       /\ utilResult' =
            IF TimeSlotsArgsRejected(startHour, endHour, intervalMinutes)
              THEN [threw |-> TRUE, slots |-> << >>]
              ELSE [threw |-> FALSE,
                    slots |-> GenerateTimeSlots(startHour, endHour, intervalMinutes)]
  /\ NoDragEvent
  /\ NoCoordEvent
  /\ UNCHANGED <<containerVars, hookVars, callSeq, lastCall, lastSmoothSeq, finalWrite>>
  /\ UNCHANGED <<dragVars, minScrollPosition, clockVars, widgetVars, bookingVars>>

\* generateDateRange(monthsAhead) is called; count is the length of the result
GenerateDateRangeCall ==
  /\ utilCall.fn = "none"
  /\ \E monthsAhead \in MonthArgs :
       /\ utilCall' = [fn |-> "generateDateRange", monthsAhead |-> monthsAhead]
       /\ utilResult' =
            IF DateRangeArgsRejected(monthsAhead)
              THEN [threw |-> TRUE, count |-> 0]
              ELSE [threw |-> FALSE, count |-> monthsAhead * 30 + 1]
  /\ NoDragEvent
  /\ NoCoordEvent
  /\ UNCHANGED <<containerVars, hookVars, callSeq, lastCall, lastSmoothSeq, finalWrite>>
  /\ UNCHANGED <<dragVars, minScrollPosition, clockVars, widgetVars, bookingVars>>

\* C13: for all valid (startHour, endHour, interval), also intervals that do
\* not divide 60, generateTimeSlots returns exactly
\* (endHour - startHour) * 60 / interval slots.
C13_SlotCount ==
  (utilCall.fn = "generateTimeSlots" /\ ~utilResult.threw) =>
    Len(utilResult.slots) * utilCall.intervalMinutes
      = (utilCall.endHour - utilCall.startHour) * 60

\* C14: for all valid arguments the slots are in strictly increasing
\* (hours, minutes) order without duplicates, with hours in
\* [startHour, endHour) and minutes in [0, 59].
C14_SlotsStrictlyIncreasing ==
  (utilCall.fn = "generateTimeSlots" /\ ~utilResult.threw) =>
    LET slots == utilResult.slots
    IN /\ \A i \in 1..(Len(slots) - 1) :
            slots[i].hours * 60 + slots[i].minutes
              < slots[i + 1].hours * 60 + slots[i + 1].minutes
       /\ \A i \in 1..Len(slots) :
            /\ slots[i].hours >= utilCall.startHour
            /\ slots[i].hours < utilCall.endHour
            /\ slots[i].minutes >= 0
            /\ slots[i].minutes <= 59
       /\ \A i, j \in 1..Len(slots) : slots[i] = slots[j] => i = j

\* a valid call with an interval that does not divide the hour returned slots
C14_Witness ==
  /\ utilCall = [fn |-> "generateTimeSlots", startHour |-> 8, endHour |-> 10,
                 intervalMinutes |-> 25]
  /\ ~utilResult.threw
  /\ Len(utilResult.slots) = 6
  /\ utilResult.slots[4] = [hours |-> 9, minutes |-> 0]

\* C15: generateTimeSlots throws, returning no slots, exactly when startHour
\* is outside [0,23], endHour <= startHour, endHour > 24 or the interval is
\* outside (0,60]; generateDateRange throws exactly when monthsAhead is
\* outside [1,12].
C15_GeneratorsFailFast ==
  /\ (utilCall.fn = "generateTimeSlots") =>
       /\ utilResult.threw <=>
            ~(/\ utilCall.startHour \in 0..23
              /\ utilCall.endHour > utilCall.startHour
              /\ utilCall.endHour <= 24
              /\ utilCall.intervalMinutes \in 1..60)
       /\ utilResult.threw => utilResult.slots = << >>
  /\ (utilCall.fn = "generateDateRange") =>
       (utilResult.threw <=> utilCall.monthsAhead \notin 1..12)

\* a call with an interval of 61 minutes threw
C15_Witness ==
  /\ utilCall = [fn |-> "generateTimeSlots", startHour |-> 8, endHour |-> 20,
                 intervalMinutes |-> 61]
  /\ utilResult.threw
  /\ utilResult.slots = << >>

\* C18: with the default configuration the first generated slot is 8:00 and
\* the last generated slot is 21:45.
C18_DefaultSlotsEightToNineFortyFive ==
  (utilCall = [fn |-> "generateTimeSlots", startHour |-> DEFAULT_START_HOUR,
               endHour |-> DEFAULT_END_HOUR,
               intervalMinutes |-> DEFAULT_INTERVAL_MINUTES]) =>
    /\ ~utilResult.threw
    /\ utilResult.slots[1] = [hours |-> 8, minutes |-> 0]
    /\ utilResult.slots[Len(utilResult.slots)] = [hours |-> 21, minutes |-> 45]

\* dates and instants isTimeSlotInPast and getDefaultDate are called with
PastCheckDays == {0, 1, 2}
PastCheckToday == 1
MinutesOfDay == 0..(MinutesPerDay - 1)

\* isTimeSlotInPast(date, slot) for every slot of the default list at one now,
\* as the TimeSelector computes isPast for its buttons
IsTimeSlotInPastCall ==
  /\ utilCall.fn = "none"
  /\ \E day \in PastCheckDays, nowMinute \in MinutesOfDay :
       /\ utilCall' = [fn |-> "isTimeSlotInPast", day |-> day,
                       nowDay |-> PastCheckToday, nowMinute |-> nowMinute]
       /\ utilResult' =
            [threw |-> FALSE,
             past |-> [i \in 1..Len(timeSlots) |->
                         IsTimeSlotInPast(day, timeSlots[i], PastCheckToday, nowMinute)]]
  /\ NoDragEvent
  /\ NoCoordEvent
  /\ UNCHANGED <<containerVars, hookVars, callSeq, lastCall, lastSmoothSeq, finalWrite>>
  /\ UNCHANGED <<dragVars, minScrollPosition, clockVars, widgetVars, bookingVars>>

\* getDefaultDate() is called at some instant of day PastCheckToday
GetDefaultDateCall ==
  /\ utilCall.fn = "none"
  /\ \E nowMinute \in MinutesOfDay :
       /\ utilCall' = [fn |-> "getDefaultDate", nowDay |-> PastCheckToday,
                       nowMinute |-> nowMinute]
       /\ utilResult' = [threw |-> FALSE,
                         day |-> GetDefaultDate(PastCheckToday, nowMinute)]
  /\ NoDragEvent
  /\ NoCoordEvent
  /\ UNCHANGED <<containerVars, hookVars, callSeq, lastCall, lastSmoothSeq, finalWrite>>
  /\ UNCHANGED <<dragVars, minScrollPosition, clockVars, widgetVars, bookingVars>>

\* C16: for a fixed now, isTimeSlotInPast(date, slot) is true exactly when
\* the date at the slot's hours:minutes is strictly before now; it is false
\* for every slot of a future date; and over the ordered slots of one day the
\* past slots form an initial segment.
C16_PastIffStrictlyBeforeNow ==
  (utilCall.fn = "isTimeSlotInPast") =>
    LET past == utilResult.past
        nowAt == utilCall.nowDay * 1440 + utilCall.nowMinute
        slotAt(i) == utilCall.day * 1440 + timeSlots[i].hours * 60 + timeSlots[i].minutes
    IN /\ \A i \in DOMAIN past : past[i] <=> slotAt(i) < nowAt
       /\ utilCall.day > utilCall.nowDay => \A i \in DOMAIN past : ~past[i]
       /\ \A i, j \in DOMAIN past : (i < j /\ past[j]) => past[i]

\* at 10:15 sharp the 10:00 slot of today is past and the 10:15 slot is not
C16_Witness ==
  /\ utilCall = [fn |-> "isTimeSlotInPast", day |-> 1, nowDay |-> 1,
                 nowMinute |-> 10 * 60 + 15]
  /\ utilResult.past[9]
  /\ ~utilResult.past[10]

\* C17: the initially selected date is today when at least one default slot
\* of today is not in the past at load time and tomorrow otherwise, so it
\* always has at least one selectable slot at load time.
C17_DefaultDateHasSelectableSlot ==
  (utilCall.fn = "getDefaultDate") =>
    LET nowAt == utilCall.nowDay * 1440 + utilCall.nowMinute
        Selectable(day) ==
          \E i \in 1..Len(timeSlots) :
            day * 1440 + timeSlots[i].hours * 60 + timeSlots[i].minutes >= nowAt
    IN /\ Selectable(utilCall.nowDay) => utilResult.day = utilCall.nowDay
       /\ ~Selectable(utilCall.nowDay) => utilResult.day = utilCall.nowDay + 1
       /\ Selectable(utilResult.day)

\* loaded at 19:46, after the last slot of today: tomorrow is selected
C17_Witness ==
  /\ utilCall = [fn |-> "getDefaultDate", nowDay |-> 1, nowMinute |-> 19 * 60 + 46]
  /\ utilResult.day = 2

UtilInit ==
  /\ CoordInit
  /\ DragInitIdle
  /\ NoWidget
  /\ NoUtil
  /\ scrollMax = TotalSize - ContainerWidth
  /\ minScrollPosition = NoValue

UtilNext ==
  \/ CalculateCall
  \/ GenerateTimeSlotsCall
  \/ GenerateDateRangeCall
  \/ IsTimeSlotInPastCall
  \/ GetDefaultDateCall

UtilSpec == UtilInit /\ [][UtilNext]_vars

(***************************************************************************)
(* Claims about the drag-scroll controller                                 *)
(***************************************************************************)

\* C6: with a getMinScroll boundary supplied, every offset a mouse-move
\* assigns during a drag is at or above the boundary.
C6_DragWriteRespectsBoundary ==
  minScrollPosition # NoValue =>
    \A w \in dragWrite : w.value >= minScrollPosition /\ scrollLeft >= minScrollPosition

\* a move that would have scrolled left of the boundary was held at it
C6_Witness ==
  /\ minScrollPosition # NoValue
  /\ minScrollPosition > 0
  /\ \E w \in dragWrite : w.raw < minScrollPosition /\ w.value = minScrollPosition
  /\ scrollLeft = minScrollPosition

\* C7: from a mouse-down until the first move beyond the threshold no move
\* writes the scroll offset and isDragging stays false; without the pointer
\* down isDragging is false.
C7_NoScrollBeforeThreshold ==
  /\ (isDown /\ ~passedThreshold) =>
       (~isDragging /\ dragWrite = {} /\ scrollLeft = dragStartScroll)
  /\ ~isDown => ~isDragging

\* C26: isDragging implies isDown; mouse-up and mouse-leave reset isDown and
\* isDragging; a move with the pointer up never writes the offset; and a new
\* mouse-down always starts with isDragging false.
C26_DraggingOnlyWhilePointerDown ==
  /\ [](isDragging => isDown)
  /\ [](~isDown => dragWrite = {})
  /\ [][MouseUp => (~isDown' /\ ~isDragging')]_vars
  /\ [][PointerDown => ~isDragging']_vars

====
